---- MODULE Spec2Model ----
(***************************************************************************)
(* mcp-ssh-wingman: a JSON-RPC (MCP) server that gives read-only access to *)
(* a tmux or screen session.  The model follows the multi-backend server   *)
(* that cmd/mcp-ssh-wingman/main.go starts (NewServer(terminalType,        *)
(* sessionName, windowID, reader, writer)), its serving loop, its request  *)
(* dispatcher and the session backends it calls.                           *)
(*                                                                         *)
(* Strings built with fmt.Sprintf / fmt.Errorf are sequences of string     *)
(* pieces, so that "the message contains X" is a statement about pieces.   *)
(* JSON values of the arguments are records [k, n, s]: k is the JSON kind, *)
(* n a number in tenths (so that 2.5 is 25), s a string or, for a number,  *)
(* the text it was decoded from.                                           *)
(***************************************************************************)
EXTENDS Integers, Sequences, FiniteSets, TLC

\* ------------------------------------------------------------------ bounds
\* Number of requests the input stream may carry before it ends.
MaxRequests == 2

\* Number of operations a client calls on a manager directly.
MaxCalls == 3

\* ------------------------------------------------------- program constants
ProtocolVersion == "2024-11-05"
ServerName == "mcp-ssh-wingman"
ServerVersion == "dev"
MethodNotFound == 0 - 32601
InternalError == 0 - 32603
DefaultLines == 100

\* --------------------------------------------------------------- JSON data
JAbsent == [k |-> "absent", n |-> 0, s |-> ""]
JNum(tenths) == [k |-> "num", n |-> tenths, s |-> ""]
JStr(str) == [k |-> "str", n |-> 0, s |-> str]

\* A JSON number as the decoder reads it: an optional sign, digits, and
\* optionally a point and more digits.  Every number becomes a float64,
\* whether or not its text has a point; the value is kept in tenths.
DigitValue(c) ==
    CASE c = "0" -> 0 [] c = "1" -> 1 [] c = "2" -> 2 [] c = "3" -> 3 [] c = "4" -> 4
      [] c = "5" -> 5 [] c = "6" -> 6 [] c = "7" -> 7 [] c = "8" -> 8 [] c = "9" -> 9

RECURSIVE DigitsValue(_)
DigitsValue(digits) ==
    IF Len(digits) = 0 THEN 0
    ELSE 10 * DigitsValue(SubSeq(digits, 1, Len(digits) - 1)) + DigitValue(SubSeq(digits, Len(digits), Len(digits)))

\* Where the point of a number's text is (0: it has none).
PointAt(text) ==
    LET at == { i \in 1..Len(text) : SubSeq(text, i, i) = "." }
    IN  IF at = {} THEN 0 ELSE CHOOSE i \in at : TRUE

ParseNumber(text) ==
    LET negative == SubSeq(text, 1, 1) = "-"
        body == IF negative THEN SubSeq(text, 2, Len(text)) ELSE text
        point == PointAt(body)
        whole == IF point = 0 THEN body ELSE SubSeq(body, 1, point - 1)
        tenth == IF point = 0 THEN 0 ELSE DigitValue(SubSeq(body, point + 1, point + 1))
        magnitude == 10 * DigitsValue(whole) + tenth
    IN  IF negative THEN 0 - magnitude ELSE magnitude

\* A number argument decoded from the given text (s keeps the text).
JNumText(text) == [k |-> "num", n |-> ParseNumber(text), s |-> text]

\* An argument that is a Go int: what a caller inside the process, not the
\* JSON decoder, can put into the arguments.  n is the int itself.
GoInt(v) == [k |-> "int", n |-> v, s |-> ""]

\* Texts of the lines argument: whole numbers written with and without a
\* point, fractions, zero and negative numbers.
NumberTexts ==
    {"100", "100.0", "50", "50.00", "1", "1.0", "2.5", "7.9", "0", "0.0", "0.9", "-5", "-5.0", "-2.5"}

\* What the lines argument of read_scrollback may be.
ScrollbackArguments ==
    {JAbsent, JStr("50")} \cup { JNumText(t) : t \in NumberTexts } \cup { GoInt(v) : v \in {75, 50, 0, 0 - 5} }

\* request.ID after decoding: nil when the id is absent (or null).
NilID == "nil"
IDs == {"num:1", "str:a", NilID}

MethodTable == {"initialize", "tools/list", "tools/call", "resources/list", "resources/read"}
OtherMethods == {"Initialize", "unknown/method"}
Methods == MethodTable \cup OtherMethods

ToolNames == {"read_terminal", "read_scrollback", "get_terminal_info", "list_windows", "set_window"}
ResourceURIs == {"terminal://current", "terminal://info"}

\* request.Params as decoded into interface{}: a JSON object, a JSON string,
\* or nil (no params).  name/uri are "" when the object has no such key.
NoParams == [shape |-> "nil", name |-> "", uri |-> "", lines |-> JAbsent, window_id |-> JAbsent]
StringParams == [shape |-> "string", name |-> "", uri |-> "", lines |-> JAbsent, window_id |-> JAbsent]
ToolParams(name, lines, wid) == [shape |-> "object", name |-> name, uri |-> "", lines |-> lines, window_id |-> wid]
ResourceParams(uri) == [shape |-> "object", name |-> "", uri |-> uri, lines |-> JAbsent, window_id |-> JAbsent]

ToolCallParams ==
    { ToolParams(n, JAbsent, JAbsent) : n \in {"read_terminal", "get_terminal_info", "list_windows", "unknown_tool", ""} }
    \cup { ToolParams("read_scrollback", l, JAbsent) : l \in {JAbsent, JNumText("50")} }
    \cup { ToolParams("set_window", JAbsent, w) : w \in {JAbsent, JStr("2"), JStr(""), JNum(20)} }
    \cup { StringParams, NoParams }

ResourceReadParams ==
    { ResourceParams(u) : u \in ResourceURIs \cup {"terminal://other"} } \cup { StringParams }

ParamsOf(method) ==
    IF method = "tools/call" THEN ToolCallParams
    ELSE IF method = "resources/read" THEN ResourceReadParams
    ELSE IF method = "initialize" THEN {NoParams, StringParams}
    ELSE {NoParams}

Requests == UNION { { [id |-> i, method |-> m, params |-> p] : i \in IDs, p \in ParamsOf(m) } : m \in Methods }

NoRequest == [id |-> NilID, method |-> "", params |-> NoParams]

\* ------------------------------------------------------------ the backends
TerminalTypes == {"tmux", "screen"}

\* Outcome of one external command (exec.Command(...).Run()).
CmdOK == "ok"
CmdExit1 == "exit status 1"
CmdFailed == "exec failed"
CmdOutcomes == {CmdOK, CmdExit1, CmdFailed}

Ok(v) == [err |-> <<>>, val |-> v]
Fail(msg) == [err |-> msg, val |-> <<>>]
Failed(r) == r.err # <<>>

\* Which outcomes the multiplexer can give for a query of the session,
\* depending on whether the session is there.
QueryOutcomes(present) == IF present THEN {CmdOK, CmdFailed} ELSE {CmdExit1, CmdFailed}

\* A command that exits with status 0 but prints what its caller's parser
\* does not expect.
CmdOddOutput == "ok, unexpected output"

\* The outcomes of the command behind SessionExists.  tmux has-session is
\* judged by its exit status alone; the output of screen -ls is parsed.
CheckOutcomes(tt, present) ==
    QueryOutcomes(present) \cup (IF tt = "screen" THEN {CmdOddOutput} ELSE {})

\* tmux has-session: exit code 1 means the session does not exist.
TmuxSessionExists(oc) ==
    IF oc = CmdOK THEN Ok(<<"true">>)
    ELSE IF oc = CmdExit1 THEN Ok(<<"false">>)
    ELSE Fail(<<oc>>)

SessionName == "mcp-wingman"

\* One line of the output of screen -ls: "<pid>.<name> <status>".  pid is ""
\* for a line whose first word has no dot (a heading, a message).
ScreenLine(pid, name, status) == [pid |-> pid, name |-> name, status |-> status]

\* What screen -ls prints, by the outcome of the command and by whether the
\* session is there.
ScreenListing(oc, present) ==
    IF oc = CmdOK
    THEN <<ScreenLine("", "There are screens on:", "")>>
         \o (IF present THEN <<ScreenLine("4242", SessionName, "(Detached)")>> ELSE <<>>)
         \o <<ScreenLine("4100", "other", "(Attached)"), ScreenLine("", "Sockets in /run/screen/S-user.", "")>>
    ELSE IF oc = CmdOddOutput
    THEN IF present THEN <<ScreenLine("4242", SessionName, "(Dead ???)")>>
         ELSE <<ScreenLine("", "Cannot open your terminal", "")>>
    ELSE <<>>

\* The loop of ListSessions over the lines: a line counts when its first
\* word has a dot and it says Detached or Attached; the name is what follows
\* the first dot.  Any other line is passed over without an error.
ParseSessions(lines) ==
    { lines[i].name : i \in { j \in 1..Len(lines) :
                                 lines[j].pid # "" /\ lines[j].status \in {"(Detached)", "(Attached)"} } }

\* screen -ls: exit code 1 is "no sessions"; otherwise the listing is parsed.
ScreenListSessions(oc, lines) ==
    IF oc \in {CmdOK, CmdOddOutput} THEN Ok(ParseSessions(lines))
    ELSE IF oc = CmdExit1 THEN Ok({})
    ELSE Fail(<<"failed to list sessions: ", oc>>)

ScreenSessionExists(oc, lines, sessionName) ==
    LET sessions == ScreenListSessions(oc, lines)
    IN  IF Failed(sessions) THEN Fail(sessions.err)
        ELSE IF sessionName \in sessions.val THEN Ok(<<"true">>)
        ELSE Ok(<<"false">>)

SessionExists(tt, oc, present) ==
    IF tt = "screen"
    THEN ScreenSessionExists(oc, ScreenListing(oc, present), SessionName)
    ELSE TmuxSessionExists(oc)

\* EnsureSession: check, and create the session when the check says it is
\* not there.  created tells whether the create command was run.
EnsureSession_AlwaysCreate(tt, checkOc, createOc, present) ==
    LET exists == SessionExists(tt, checkOc, present)
    IN  IF Failed(exists)
        THEN [err |-> <<"failed to check session: ">> \o exists.err, created |-> FALSE, present |-> present]
        ELSE IF createOc # CmdOK
             THEN [err |-> <<"failed to create ", tt, " session: ", createOc>>, created |-> TRUE, present |-> present]
             ELSE [err |-> <<>>, created |-> TRUE, present |-> TRUE]

EnsureSession(tt, checkOc, createOc, present) ==
    LET exists == SessionExists(tt, checkOc, present)
    IN  IF Failed(exists)
        THEN [err |-> <<"failed to check session: ">> \o exists.err, created |-> FALSE, present |-> present]
        ELSE IF exists.val = <<"false">>
        THEN IF createOc # CmdOK
             THEN [err |-> <<"failed to create ", tt, " session: ", createOc>>, created |-> TRUE, present |-> present]
             ELSE [err |-> <<>>, created |-> TRUE, present |-> TRUE]
        ELSE [err |-> <<>>, created |-> FALSE, present |-> present]

\* The target of a screen command: the session, or session:window.
SessionTarget(windowID) ==
    IF windowID # "" THEN <<SessionName, ":", windowID>> ELSE <<SessionName>>

\* CapturePane.  tmux: one capture-pane command.  screen: hardcopy to a
\* temporary file, then cat; readOc is the outcome of the cat.
CapturePane_Raw(tt, oc, readOc, windowID) ==
    IF tt = "screen"
    THEN IF oc # CmdOK
         THEN Fail(<<oc>>)
         ELSE IF readOc # CmdOK
         THEN Fail(<<readOc>>)
         ELSE Ok(<<"<pane ">> \o SessionTarget(windowID) \o <<">">>)
    ELSE IF oc # CmdOK
         THEN Fail(<<oc>>)
         ELSE Ok(<<"<pane ", SessionName, ">">>)

CapturePane(tt, oc, readOc, windowID) ==
    IF tt = "screen"
    THEN IF oc # CmdOK
         THEN Fail(<<"failed to capture screen content: ", oc, " (stderr: ", "<stderr>", ")">>)
         ELSE IF readOc # CmdOK
         THEN Fail(<<"failed to read captured content: ", readOc, " (stderr: ", "<stderr>", ")">>)
         ELSE Ok(<<"<pane ">> \o SessionTarget(windowID) \o <<">">>)
    ELSE IF oc # CmdOK
         THEN Fail(<<"failed to capture pane: ", oc, " (stderr: ", "<stderr>", ")">>)
         ELSE Ok(<<"<pane ", SessionName, ">">>)

\* GetPaneInfo.  tmux: display-message, whose output must have four comma
\* separated parts (wellFormed).  screen: fixed placeholder values whether
\* or not the info query succeeds.
GetPaneInfo_Strict(tt, oc, wellFormed, windowID) ==
    IF oc # CmdOK
    THEN Fail(<<"failed to get pane info: ", oc>>)
    ELSE IF tt = "screen"
    THEN Ok([width |-> "80", height |-> "24", current_path |-> "unknown",
             window_id |-> windowID, info |-> "<info>"])
    ELSE IF ~wellFormed
    THEN Fail(<<"unexpected pane info format: ", "<output>">>)
    ELSE Ok([width |-> "120", height |-> "40", current_path |-> "/home/user", pane_index |-> "0"])

GetPaneInfo(tt, oc, wellFormed, windowID) ==
    IF tt = "screen"
    THEN IF oc # CmdOK
         THEN Ok([width |-> "80", height |-> "24", current_path |-> "unknown", window_id |-> windowID])
         ELSE Ok([width |-> "80", height |-> "24", current_path |-> "unknown",
                  window_id |-> windowID, info |-> "<info>"])
    ELSE IF oc # CmdOK
         THEN Fail(<<"failed to get pane info: ", oc>>)
         ELSE IF ~wellFormed
         THEN Fail(<<"unexpected pane info format: ", "<output>">>)
         ELSE Ok([width |-> "120", height |-> "40", current_path |-> "/home/user", pane_index |-> "0"])

\* GetScrollbackHistory(lines).  tmux: capture-pane -S -<lines>.  screen:
\* hardcopy -h to a temporary file, then tail -n <lines>.
GetScrollbackHistory(tt, lines, oc, readOc, windowID) ==
    IF tt = "screen"
    THEN IF oc # CmdOK
         THEN Fail(<<"failed to capture scrollback: ", oc, " (stderr: ", "<stderr>", ")">>)
         ELSE IF readOc # CmdOK
         THEN Fail(<<"failed to read scrollback content: ", readOc, " (stderr: ", "<stderr>", ")">>)
         ELSE Ok(<<"<scrollback ">> \o SessionTarget(windowID) \o <<" ", ToString(lines), ">">>)
    ELSE IF oc # CmdOK
         THEN Fail(<<"failed to capture scrollback: ", oc>>)
         ELSE Ok(<<"<scrollback ", SessionName, " ", ToString(lines), ">">>)

\* The file the screen backend has the session write for an operation.
TempFile(op) == IF op = "CapturePane" THEN "/tmp/screen_capture" ELSE "/tmp/screen_scrollback"

\* The temporary files there are after CapturePane or GetScrollbackHistory
\* returned.  screen: the hardcopy (oc) writes the file, and rm runs only
\* after the read (readOc) succeeded, its own outcome (rmOc) being ignored.
\* tmux: the output is read from the command, there is no file.
TempFilesAfter(tt, op, oc, readOc, rmOc, files) ==
    IF tt # "screen" \/ oc # CmdOK THEN files
    ELSE IF readOc # CmdOK \/ rmOc # CmdOK THEN files \cup {TempFile(op)}
    ELSE files \ {TempFile(op)}

\* strconv.Atoi of one word of the window list: an optional sign and digits.
IsInt(field) ==
    LET body == IF SubSeq(field, 1, 1) \in {"-", "+"} THEN SubSeq(field, 2, Len(field)) ELSE field
    IN  /\ Len(body) > 0
        /\ \A i \in 1..Len(body) : SubSeq(body, i, i) \in {"0", "1", "2", "3", "4", "5", "6", "7", "8", "9"}

Atoi(field) ==
    IF SubSeq(field, 1, 1) = "-" THEN 0 - DigitsValue(SubSeq(field, 2, Len(field)))
    ELSE IF SubSeq(field, 1, 1) = "+" THEN DigitsValue(SubSeq(field, 2, Len(field)))
    ELSE DigitsValue(field)

\* windowData[num] = title
SetTitle(windowData, num, title) ==
    [n \in DOMAIN windowData \cup {num} |-> IF n = num THEN title ELSE windowData[n]]

\* The loop over the words: a number opens a window, any other word is the
\* title of the window opened last (a title that ends in * or - is put
\* together again from its parts, so it is the word as it stands).
RECURSIVE WindowData(_, _, _)
WindowData(fields, windowData, currentWindow) ==
    IF fields = <<>> THEN windowData
    ELSE IF IsInt(Head(fields))
    THEN WindowData(Tail(fields), SetTitle(windowData, Atoi(Head(fields)), ""), Atoi(Head(fields)))
    ELSE IF currentWindow >= 0
    THEN WindowData(Tail(fields), SetTitle(windowData, currentWindow, Head(fields)), currentWindow)
    ELSE WindowData(Tail(fields), windowData, currentWindow)

\* The windows in the order of their numbers, as {id, name}.
RECURSIVE SortedWindows(_, _)
SortedWindows(windowData, windowNums) ==
    IF windowNums = {} THEN <<>>
    ELSE LET num == CHOOSE n \in windowNums : \A m \in windowNums : n <= m
             title == windowData[num]
         IN  << [id |-> ToString(num),
                 name |-> IF title # "" THEN ToString(num) \o " " \o title ELSE ToString(num)] >>
             \o SortedWindows(windowData, windowNums \ {num})

\* The window list parsed from the words the enumeration command printed.
ParseWindows(fields) ==
    LET windowData == WindowData(fields, [n \in {} |-> ""], 0 - 1)
    IN  SortedWindows(windowData, DOMAIN windowData)

\* ListWindows: the windows the enumeration yields, or the single fallback
\* entry when it fails or yields nothing.  It has no error path.
listWindowsFallback == << [id |-> "0", name |-> "default"] >>

ListWindows_NoFallback(tt, oc, parsed) ==
    IF oc # CmdOK THEN Fail(<<"failed to list windows: ", oc>>) ELSE Ok(parsed)

ListWindows(tt, oc, parsed) ==
    IF oc # CmdOK \/ parsed = <<>> THEN Ok(listWindowsFallback) ELSE Ok(parsed)

\* The external commands each operation of a manager runs.
TmuxCommands(op) ==
    CASE op = "EnsureSession" -> {"tmux has-session", "tmux new-session"}
      [] op = "SessionExists" -> {"tmux has-session"}
      [] op = "CapturePane" -> {"tmux capture-pane"}
      [] op = "GetPaneInfo" -> {"tmux display-message"}
      [] op = "GetScrollbackHistory" -> {"tmux capture-pane"}
      [] op = "KillSession" -> {"tmux kill-session"}
      [] OTHER -> {}

\* The window operations of the tmux manager: the window field is held in
\* memory, the listing asks tmux for the windows.
TmuxWindowCommands(op) ==
    CASE op = "ListWindows" -> {"tmux list-windows"}
      [] OTHER -> {}

ScreenCommands(op) ==
    CASE op = "EnsureSession" -> {"screen -ls", "screen -dmS"}
      [] op = "SessionExists" -> {"screen -ls"}
      [] op = "CapturePane" -> {"screen -X hardcopy", "cat", "rm"}
      [] op = "GetPaneInfo" -> {"screen -Q info"}
      [] op = "GetScrollbackHistory" -> {"screen -X hardcopy -h", "tail", "rm"}
      [] op = "ListWindows" -> {"screen -Q windows"}
      [] op = "KillSession" -> {"screen -X quit"}
      [] OTHER -> {}

Commands(tt, op) ==
    IF tt = "screen" THEN ScreenCommands(op)
    ELSE TmuxCommands(op) \cup TmuxWindowCommands(op)

\* The -t / -S target of the command an operation runs.  The screen manager
\* targets session:window when its window field is set; the commands of the
\* tmux manager name the session alone.
CommandTarget(tt, op, windowID) ==
    IF tt = "screen" /\ op \in {"CapturePane", "GetPaneInfo", "GetScrollbackHistory"}
    THEN SessionTarget(windowID)
    ELSE <<SessionName>>

\* What the enumeration command can print, as words.
WindowOutputs ==
    { <<>>, <<"0", "bash*", "2", "vim">>, <<"2", "vim", "0", "bash*">>, <<"No", "screen", "session", "found.">> }

\* What the enumeration command can print, already parsed.
WindowListings == { ParseWindows(fields) : fields \in WindowOutputs }

\* -------------------------------------------------------- protocol results
NoResult == [kind |-> "nil"]
NoError == [code |-> 0, message |-> <<>>]
RPCError(code, message) == [code |-> code, message |-> message]

TextContent(text) == << [type |-> "text", text |-> text] >>
ToolResult(text) == [kind |-> "tool", content |-> TextContent(text), isError |-> FALSE]
ToolError(text) == [kind |-> "tool", content |-> TextContent(text), isError |-> TRUE]
ResourceResult(uri, text) ==
    [kind |-> "resource", contents |-> << [uri |-> uri, mimeType |-> "text/plain", text |-> text] >>]

\* What a handler hands back to handleRequest: result or err, the backend
\* operations it invoked, in order, the error the backend returned to it
\* (<<>>: none), and the backend's window field after it.
Returned(result, calls, backendErr, windowID) ==
    [result |-> result, err |-> <<>>, calls |-> calls, backendErr |-> backendErr, windowID |-> windowID]
ReturnedErr(err, calls, backendErr, windowID) ==
    [result |-> NoResult, err |-> err, calls |-> calls, backendErr |-> backendErr, windowID |-> windowID]

\* The outcomes of the external commands one request may run.
Envs ==
    [oc : CmdOutcomes, readOc : {CmdOK, CmdExit1}, rmOc : {CmdOK, CmdFailed},
     wellFormed : BOOLEAN, listing : WindowListings]

\* --------------------------------------------------------------- handlers
handleInitialize_OldProtocol(windowID) ==
    Returned([kind |-> "initialize", protocolVersion |-> "2024-10-07",
              serverInfo |-> [name |-> ServerName, version |-> ServerVersion]],
             <<>>, <<>>, windowID)

handleInitialize(windowID) ==
    Returned([kind |-> "initialize", protocolVersion |-> ProtocolVersion,
              serverInfo |-> [name |-> ServerName, version |-> ServerVersion]],
             <<>>, <<>>, windowID)

Tool(name, description, properties, required) ==
    [name |-> name, description |-> description,
     inputSchema |-> [type |-> "object", properties |-> properties, required |-> required]]

listTools_TmuxOnly(tt) ==
    [kind |-> "tools", tools |-> <<
        Tool("read_terminal", <<"Read the current terminal content from the ", tt, " session">>, {}, {}),
        Tool("read_scrollback", <<"Read scrollback history from the ", tt, " session">>, {"lines"}, {}),
        Tool("get_terminal_info", <<"Get information about the terminal (dimensions, current path, etc.)">>, {}, {}) >>]

listTools(tt) ==
    [kind |-> "tools", tools |-> <<
        Tool("read_terminal", <<"Read the current terminal content from the ", tt, " session">>, {}, {}),
        Tool("read_scrollback", <<"Read scrollback history from the ", tt, " session">>, {"lines"}, {}),
        Tool("get_terminal_info", <<"Get information about the terminal (dimensions, current path, etc.)">>, {}, {}),
        Tool("list_windows", <<"List all windows/panes in the ", tt, " session">>, {}, {}),
        Tool("set_window", <<"Set the active window/pane in the ", tt, " session">>, {"window_id"}, {"window_id"}) >>]

listResources ==
    [kind |-> "resources", resources |-> <<
        [uri |-> "terminal://current", name |-> "Current Terminal", mimeType |-> "text/plain"],
        [uri |-> "terminal://info", name |-> "Terminal Information", mimeType |-> "text/plain"] >>]

\* int(v) of a float64 given in tenths: truncation toward zero.
IntOf(tenths) == IF tenths >= 0 THEN tenths \div 10 ELSE 0 - ((0 - tenths) \div 10)

\* The lines argument of read_scrollback as the handler reads it.
ScrollbackLines_IntegerOnly(arg) ==
    IF arg.k = "int" THEN arg.n ELSE DefaultLines

ScrollbackLines(arg) ==
    IF arg.k = "num" THEN IntOf(arg.n)
    ELSE IF arg.k = "int" THEN arg.n
    ELSE DefaultLines

RECURSIVE WindowLines(_)
WindowLines(windows) ==
    IF windows = <<>> THEN <<>>
    ELSE <<"- ID: ", Head(windows).id, ", Name: ", Head(windows).name, "\n">> \o WindowLines(Tail(windows))

\* json.Unmarshal of the params into the request struct fails for a JSON
\* string; nil params leave the struct empty.
UnmarshalFails_Lenient(params) == FALSE

UnmarshalFails(params) == params.shape = "string"

\* The cases of callTool's switch on the tool name.
readTerminalTool_HardFail(tt, windowID, env) ==
    LET content == CapturePane(tt, env.oc, env.readOc, windowID)
    IN  IF Failed(content)
        THEN ReturnedErr(content.err, <<"CapturePane">>, content.err, windowID)
        ELSE Returned(ToolResult(content.val), <<"CapturePane">>, <<>>, windowID)

readTerminalTool(tt, windowID, env) ==
    LET content == CapturePane(tt, env.oc, env.readOc, windowID)
    IN  IF Failed(content)
        THEN Returned(ToolError(<<"Error: ">> \o content.err), <<"CapturePane">>, content.err, windowID)
        ELSE Returned(ToolResult(content.val), <<"CapturePane">>, <<>>, windowID)

readScrollbackTool(tt, windowID, params, env) ==
    LET content == GetScrollbackHistory(tt, ScrollbackLines(params.lines), env.oc, env.readOc, windowID)
    IN  IF Failed(content)
        THEN Returned(ToolError(<<"Error: ">> \o content.err), <<"GetScrollbackHistory">>, content.err, windowID)
        ELSE Returned(ToolResult(content.val), <<"GetScrollbackHistory">>, <<>>, windowID)

getTerminalInfoTool(tt, windowID, env) ==
    LET info == GetPaneInfo(tt, env.oc, env.wellFormed, windowID)
    IN  IF Failed(info)
        THEN Returned(ToolError(<<"Error: ">> \o info.err), <<"GetPaneInfo">>, info.err, windowID)
        ELSE Returned(ToolResult(<<"Terminal Info (", tt, "):\n- Width: ", info.val.width,
                                   "\n- Height: ", info.val.height,
                                   "\n- Current Path: ", info.val.current_path,
                                   "\n- Window/Pane ID: ", windowID>>),
                      <<"GetPaneInfo", "GetWindow">>, <<>>, windowID)

listWindowsTool(tt, windowID, env) ==
    LET windows == ListWindows(tt, env.oc, env.listing)
    IN  IF Failed(windows)
        THEN Returned(ToolError(<<"Error: ">> \o windows.err), <<"ListWindows">>, windows.err, windowID)
        ELSE Returned(ToolResult(<<"Available windows/panes in ", tt, " session:\n">> \o WindowLines(windows.val)),
                      <<"ListWindows">>, <<>>, windowID)

setWindowTool_Coerce(windowID, params) ==
    IF params.window_id.k # "str"
    THEN Returned(ToolError(<<"Error: window_id must be a string">>), <<>>, <<>>, params.window_id.s)
    ELSE Returned(ToolResult(<<"Switched to window/pane: ", params.window_id.s>>),
                  <<"SetWindow">>, <<>>, params.window_id.s)

setWindowTool_SkipEmpty(windowID, params) ==
    IF params.window_id.k # "str"
    THEN Returned(ToolError(<<"Error: window_id must be a string">>), <<>>, <<>>, windowID)
    ELSE Returned(ToolResult(<<"Switched to window/pane: ", params.window_id.s>>),
                  <<"SetWindow">>, <<>>,
                  IF params.window_id.s # "" THEN params.window_id.s ELSE windowID)

setWindowTool_Kill(windowID, params) ==
    IF params.window_id.k # "str"
    THEN Returned(ToolError(<<"Error: window_id must be a string">>), <<>>, <<>>, windowID)
    ELSE Returned(ToolResult(<<"Switched to window/pane: ", params.window_id.s>>),
                  <<"KillSession">>, <<>>, params.window_id.s)

setWindowTool(windowID, params) ==
    IF params.window_id.k # "str"
    THEN Returned(ToolError(<<"Error: window_id must be a string">>), <<>>, <<>>, windowID)
    ELSE Returned(ToolResult(<<"Switched to window/pane: ", params.window_id.s>>),
                  <<"SetWindow">>, <<>>, params.window_id.s)

unknownTool_SoftFail(windowID, params) ==
    Returned(ToolError(<<"Error: ", "unknown tool: ", params.name>>), <<>>, <<>>, windowID)

unknownTool(windowID, params) ==
    ReturnedErr(<<"unknown tool: ", params.name>>, <<>>, <<>>, windowID)

callTool(tt, windowID, params, env) ==
    IF UnmarshalFails(params)
    THEN ReturnedErr(<<"failed to unmarshal tool request: ", "<json error>">>, <<>>, <<>>, windowID)
    ELSE IF params.name = "read_terminal" THEN readTerminalTool(tt, windowID, env)
    ELSE IF params.name = "read_scrollback" THEN readScrollbackTool(tt, windowID, params, env)
    ELSE IF params.name = "get_terminal_info" THEN getTerminalInfoTool(tt, windowID, env)
    ELSE IF params.name = "list_windows" THEN listWindowsTool(tt, windowID, env)
    ELSE IF params.name = "set_window" THEN setWindowTool(windowID, params)
    ELSE unknownTool(windowID, params)

\* The cases of readResource's switch on the URI.
readCurrent_SoftFail(tt, windowID, params, env) ==
    LET content == CapturePane(tt, env.oc, env.readOc, windowID)
    IN  IF Failed(content)
        THEN Returned(ResourceResult(params.uri, <<"Error: ">> \o content.err), <<"CapturePane">>, content.err, windowID)
        ELSE Returned(ResourceResult(params.uri, content.val), <<"CapturePane">>, <<>>, windowID)

readCurrent(tt, windowID, params, env) ==
    LET content == CapturePane(tt, env.oc, env.readOc, windowID)
    IN  IF Failed(content)
        THEN ReturnedErr(content.err, <<"CapturePane">>, content.err, windowID)
        ELSE Returned(ResourceResult(params.uri, content.val), <<"CapturePane">>, <<>>, windowID)

readInfo(tt, windowID, params, env) ==
    LET info == GetPaneInfo(tt, env.oc, env.wellFormed, windowID)
    IN  IF Failed(info)
        THEN ReturnedErr(info.err, <<"GetPaneInfo">>, info.err, windowID)
        ELSE Returned(ResourceResult(params.uri,
                          <<"Terminal Information (", tt, "):\n\nDimensions: ", info.val.width, "x", info.val.height,
                            "\nCurrent Path: ", info.val.current_path,
                            "\nWindow/Pane ID: ", windowID>>),
                      <<"GetPaneInfo", "GetWindow">>, <<>>, windowID)

unknownResource(windowID, params) ==
    ReturnedErr(<<"unknown resource: ", params.uri>>, <<>>, <<>>, windowID)

readResource(tt, windowID, params, env) ==
    IF UnmarshalFails(params)
    THEN ReturnedErr(<<"failed to unmarshal resource request: ", "<json error>">>, <<>>, <<>>, windowID)
    ELSE IF params.uri = "terminal://current" THEN readCurrent(tt, windowID, params, env)
    ELSE IF params.uri = "terminal://info" THEN readInfo(tt, windowID, params, env)
    ELSE unknownResource(windowID, params)

\* handleRequest: the response for one request, with the backend calls made
\* for it, the backend error behind it and the window field it leaves.
Response_NilID(id, result, error) == [jsonrpc |-> "2.0", id |-> NilID, result |-> result, error |-> error]

Response(id, result, error) == [jsonrpc |-> "2.0", id |-> id, result |-> result, error |-> error]

Handled(response, calls, backendErr, windowID) ==
    [response |-> response, calls |-> calls, backendErr |-> backendErr, windowID |-> windowID]

\* The "if err != nil ... else ..." that follows a handler's call.
FromHandler_KeepResult(id, r) ==
    IF r.err # <<>>
    THEN Handled(Response(id, [kind |-> "partial"], RPCError(InternalError, r.err)), r.calls, r.backendErr, r.windowID)
    ELSE Handled(Response(id, r.result, NoError), r.calls, r.backendErr, r.windowID)

FromHandler_ResetOnError(id, r) ==
    IF r.err # <<>>
    THEN Handled(Response(id, NoResult, RPCError(InternalError, r.err)), r.calls, r.backendErr, "")
    ELSE Handled(Response(id, r.result, NoError), r.calls, r.backendErr, r.windowID)

FromHandler(id, r) ==
    IF r.err # <<>>
    THEN Handled(Response(id, NoResult, RPCError(InternalError, r.err)), r.calls, r.backendErr, r.windowID)
    ELSE Handled(Response(id, r.result, NoError), r.calls, r.backendErr, r.windowID)

\* The comparison of the switch on request.Method: exact.
MatchMethod_Fold(method, name) == method = name \/ (name = "initialize" /\ method = "Initialize")

MatchMethod(method, name) == method = name

handleRequest_ProbeOnList(tt, windowID, request, env) ==
    IF MatchMethod(request.method, "initialize")
    THEN FromHandler(request.id, handleInitialize(windowID))
    ELSE IF MatchMethod(request.method, "tools/list")
    THEN Handled(Response(request.id, listTools(tt), NoError), <<>>, <<>>, windowID)
    ELSE IF MatchMethod(request.method, "tools/call")
    THEN FromHandler(request.id, callTool(tt, windowID, request.params, env))
    ELSE IF MatchMethod(request.method, "resources/list")
    THEN IF env.oc = CmdOK
         THEN Handled(Response(request.id, listResources, NoError), <<"SessionExists">>, <<>>, windowID)
         ELSE FromHandler(request.id, ReturnedErr(<<"failed to check session: ", env.oc>>,
                                                  <<"SessionExists">>, <<env.oc>>, windowID))
    ELSE IF MatchMethod(request.method, "resources/read")
    THEN FromHandler(request.id, readResource(tt, windowID, request.params, env))
    ELSE Handled(Response(request.id, NoResult,
                          RPCError(MethodNotFound, <<"Method not found: ", request.method>>)),
                 <<>>, <<>>, windowID)

handleRequest(tt, windowID, request, env) ==
    IF MatchMethod(request.method, "initialize")
    THEN FromHandler(request.id, handleInitialize(windowID))
    ELSE IF MatchMethod(request.method, "tools/list")
    THEN Handled(Response(request.id, listTools(tt), NoError), <<>>, <<>>, windowID)
    ELSE IF MatchMethod(request.method, "tools/call")
    THEN FromHandler(request.id, callTool(tt, windowID, request.params, env))
    ELSE IF MatchMethod(request.method, "resources/list")
    THEN Handled(Response(request.id, listResources, NoError), <<>>, <<>>, windowID)
    ELSE IF MatchMethod(request.method, "resources/read")
    THEN FromHandler(request.id, readResource(tt, windowID, request.params, env))
    ELSE Handled(Response(request.id, NoResult,
                          RPCError(MethodNotFound, <<"Method not found: ", request.method>>)),
                 <<>>, <<>>, windowID)

\* ------------------------------------------------------------------- state
VARIABLES
    terminalType,   \* Server.terminalType, which also selects the backend
    windowID,       \* the backend manager's windowID field
    session,        \* whether the named session exists in the multiplexer
    pc,             \* where Start is: "start", "decode", "handle", "encode", "done"
    startErr,       \* what Start returned once pc = "done" (<<>> is nil)
    request,        \* the request decoded last
    response,       \* the response handleRequest built for it
    reqs,           \* history: the ids of the requests decoded so far
    out,            \* the output stream: the envelope of every response written
    calls,          \* the backend operations invoked for the current request
                    \* (for EnsureSession while the server starts)
    backendErr,     \* the error the backend returned for the current request (<<>>: none)
    ensured,        \* how many times Start has called EnsureSession
    last,           \* the operation called last on the manager by a client other
                    \* than the server's loop, with its inputs and what it returned
    tmpFiles,       \* the temporary capture files of the screen backend that exist
    ensuring        \* a call of EnsureSession between its check and its create command:
                    \* the outcome of the check and whether the session was there (<<>>: none)

vars == <<terminalType, windowID, session, pc, startErr, request, response, reqs, out, calls, backendErr, ensured, last, tmpFiles, ensuring>>

NoResponse == Response(NilID, NoResult, NoError)

HasResult(r) == r.result # NoResult
HasError(r) == r.error # NoError

\* What one line of the output stream shows of a response; req is the
\* number of the request it answers (0: none).
Envelope(req, r) ==
    [req |-> req, jsonrpc |-> r.jsonrpc, id |-> r.id, hasResult |-> HasResult(r), hasError |-> HasError(r)]

\* NewServer: the window given on the command line is applied only when it
\* is not empty.
InitialWindows == {"", "1"}

\* A call of a manager operation: the call before it (its operation and
\* error), the operation, the outcome of its (first) command, whether the
\* session was there before and after it, and what it returned.
Call(prior, op, oc, before, after, err, exists, created, output, windows) ==
    [n |-> prior.n + 1, priorOp |-> prior.op, priorErr |-> prior.err,
     op |-> op, oc |-> oc, before |-> before, after |-> after, err |-> err, exists |-> exists,
     created |-> created, output |-> output, windows |-> windows]

NoCall ==
    [n |-> 0, priorOp |-> "", priorErr |-> <<>>,
     op |-> "", oc |-> "", before |-> FALSE, after |-> FALSE, err |-> <<>>, exists |-> "",
     created |-> FALSE, output |-> <<>>, windows |-> <<>>]

Init ==
    /\ terminalType \in TerminalTypes
    /\ windowID \in InitialWindows
    /\ session \in BOOLEAN
    /\ pc = "start"
    /\ startErr = <<>>
    /\ request = NoRequest
    /\ response = NoResponse
    /\ reqs = <<>>
    /\ out = <<>>
    /\ calls = <<>>
    /\ backendErr = <<>>
    /\ ensured = 0
    /\ last = NoCall
    /\ tmpFiles = {}
    /\ ensuring = <<>>

StartServing_IgnoreError ==
    /\ pc = "start"
    /\ \E checkOc \in CheckOutcomes(terminalType, session), createOc \in {CmdOK, CmdFailed} :
          LET r == EnsureSession(terminalType, checkOc, createOc, session)
          IN  session' = r.present
    /\ pc' = "decode"
    /\ calls' = <<"EnsureSession">>
    /\ ensured' = ensured + 1
    /\ UNCHANGED <<terminalType, windowID, startErr, request, response, reqs, out, backendErr, last, tmpFiles, ensuring>>

\* Start, up to the loop: EnsureSession succeeded.
StartServing ==
    /\ pc = "start"
    /\ \E checkOc \in CheckOutcomes(terminalType, session), createOc \in {CmdOK, CmdFailed} :
          LET r == EnsureSession(terminalType, checkOc, createOc, session)
          IN  /\ r.err = <<>>
              /\ session' = r.present
    /\ pc' = "decode"
    /\ calls' = <<"EnsureSession">>
    /\ ensured' = ensured + 1
    /\ UNCHANGED <<terminalType, windowID, startErr, request, response, reqs, out, backendErr, last, tmpFiles, ensuring>>

\* Start, up to the loop: EnsureSession failed, Start returns the error.
StartFailed ==
    /\ pc = "start"
    /\ \E checkOc \in CheckOutcomes(terminalType, session), createOc \in {CmdOK, CmdFailed} :
          LET r == EnsureSession(terminalType, checkOc, createOc, session)
          IN  /\ r.err # <<>>
              /\ session' = r.present
              /\ startErr' = <<"failed to setup terminal session: ">> \o r.err
    /\ pc' = "done"
    /\ calls' = <<"EnsureSession">>
    /\ ensured' = ensured + 1
    /\ UNCHANGED <<terminalType, windowID, request, response, reqs, out, backendErr, last, tmpFiles, ensuring>>

Decode_ReadAhead ==
    /\ pc \in {"decode", "encode"}
    /\ Len(reqs) < MaxRequests
    /\ \E r \in Requests :
          /\ request' = r
          /\ reqs' = Append(reqs, r.id)
    /\ response' = NoResponse
    /\ calls' = <<>>
    /\ backendErr' = <<>>
    /\ pc' = "handle"
    /\ UNCHANGED <<terminalType, windowID, session, startErr, out, ensured, last, tmpFiles, ensuring>>

\* decoder.Decode yields the next request of the input stream.
Decode ==
    /\ pc = "decode"
    /\ Len(reqs) < MaxRequests
    /\ \E r \in Requests :
          /\ request' = r
          /\ reqs' = Append(reqs, r.id)
    /\ response' = NoResponse
    /\ calls' = <<>>
    /\ backendErr' = <<>>
    /\ pc' = "handle"
    /\ UNCHANGED <<terminalType, windowID, session, startErr, out, ensured, last, tmpFiles, ensuring>>

\* decoder.Decode meets the clean end of the input: Start returns nil.
DecodeEOF_Wrapped ==
    /\ pc = "decode"
    /\ pc' = "done"
    /\ startErr' = <<"failed to decode request: ", "EOF">>
    /\ UNCHANGED <<terminalType, windowID, session, request, response, reqs, out, calls, backendErr, ensured, last, tmpFiles, ensuring>>

DecodeEOF ==
    /\ pc = "decode"
    /\ pc' = "done"
    /\ startErr' = <<>>
    /\ UNCHANGED <<terminalType, windowID, session, request, response, reqs, out, calls, backendErr, ensured, last, tmpFiles, ensuring>>

\* decoder.Decode fails (malformed JSON, a read error): Start returns it.
DecodeError_Respond ==
    /\ pc = "decode"
    /\ pc' = "done"
    /\ \E e \in {"invalid character", "unexpected EOF"} :
          startErr' = <<"failed to decode request: ", e>>
    /\ out' = Append(out, Envelope(0, Response(NilID, NoResult, RPCError(InternalError, <<"parse error">>))))
    /\ UNCHANGED <<terminalType, windowID, session, request, response, reqs, calls, backendErr, ensured, last, tmpFiles, ensuring>>

DecodeError ==
    /\ pc = "decode"
    /\ pc' = "done"
    /\ \E e \in {"invalid character", "unexpected EOF"} :
          startErr' = <<"failed to decode request: ", e>>
    /\ UNCHANGED <<terminalType, windowID, session, request, response, reqs, out, calls, backendErr, ensured, last, tmpFiles, ensuring>>

\* response := s.handleRequest(&request)
Handle ==
    /\ pc = "handle"
    /\ \E env \in Envs :
          /\ env.oc \in QueryOutcomes(session)
          /\ LET h == handleRequest(terminalType, windowID, request, env)
             IN  /\ response' = h.response
                 /\ calls' = h.calls
                 /\ backendErr' = h.backendErr
                 /\ windowID' = h.windowID
                 /\ tmpFiles' = IF h.calls # <<>> /\ Head(h.calls) \in {"CapturePane", "GetScrollbackHistory"}
                                 THEN TempFilesAfter(terminalType, Head(h.calls), env.oc, env.readOc, env.rmOc, tmpFiles)
                                 ELSE tmpFiles
    /\ pc' = "encode"
    /\ UNCHANGED <<terminalType, session, startErr, request, reqs, out, ensured, last, ensuring>>

Encode_SkipNotification ==
    /\ pc = "encode"
    /\ out' = IF request.id = NilID THEN out ELSE Append(out, Envelope(Len(reqs), response))
    /\ pc' = "decode"
    /\ UNCHANGED <<terminalType, windowID, session, startErr, request, response, reqs, calls, backendErr, ensured, last, tmpFiles, ensuring>>

\* encoder.Encode(response) writes the response and the loop goes on.
Encode ==
    /\ pc = "encode"
    /\ out' = Append(out, Envelope(Len(reqs), response))
    /\ pc' = "decode"
    /\ UNCHANGED <<terminalType, windowID, session, startErr, request, response, reqs, calls, backendErr, ensured, last, tmpFiles, ensuring>>

\* encoder.Encode(response) fails to write: Start returns the error.
EncodeError ==
    /\ pc = "encode"
    /\ pc' = "done"
    /\ startErr' = <<"failed to encode response: ", "<write error>">>
    /\ UNCHANGED <<terminalType, windowID, session, request, response, reqs, out, calls, backendErr, ensured, last, tmpFiles, ensuring>>

\* The session is ended from outside the server (Manager.KillSession, or
\* the user quitting it); no request of the server leads here.
KillSession ==
    /\ session
    /\ session' = FALSE
    /\ UNCHANGED <<terminalType, windowID, pc, startErr, request, response, reqs, out, calls, backendErr, ensured, last, tmpFiles, ensuring>>

Next ==
    \/ StartServing
    \/ StartFailed
    \/ Decode
    \/ DecodeEOF
    \/ DecodeError
    \/ Handle
    \/ Encode
    \/ EncodeError
    \/ KillSession

Spec == Init /\ [][Next]_vars

\* Start is one sequential routine: where it stands, its next step is taken
\* once the blocking call of that step (the read of the input, the backend
\* commands, the write of the response) returns.  The session being ended
\* from outside is under no such obligation.
FairSpec ==
    /\ Spec
    /\ WF_vars(StartServing \/ StartFailed)
    /\ WF_vars(Decode \/ DecodeEOF \/ DecodeError)
    /\ WF_vars(Handle)
    /\ WF_vars(Encode \/ EncodeError)

\* read_scrollback on its own: the server stands before handleRequest with
\* a read_scrollback call whose lines argument is any of ScrollbackArguments.
ScrollbackRequests ==
    { [id |-> "num:1", method |-> "tools/call", params |-> ToolParams("read_scrollback", l, JAbsent)] :
        l \in ScrollbackArguments }

ScrollbackInit ==
    /\ terminalType \in TerminalTypes
    /\ windowID \in InitialWindows
    /\ session \in BOOLEAN
    /\ pc = "handle"
    /\ startErr = <<>>
    /\ request \in ScrollbackRequests
    /\ response = NoResponse
    /\ reqs = <<request.id>>
    /\ out = <<>>
    /\ calls = <<>>
    /\ backendErr = <<>>
    /\ ensured = 1
    /\ last = NoCall
    /\ tmpFiles = {}
    /\ ensuring = <<>>

ScrollbackSpec == ScrollbackInit /\ [][Handle]_vars

\* The manager on its own: a client (a test, another program) calls its
\* operations one after the other, while the session may be ended from
\* outside at any moment.
CallEnsureSession ==
    /\ last.n < MaxCalls
    /\ \E checkOc \in CheckOutcomes(terminalType, session), createOc \in {CmdOK, CmdFailed} :
          LET r == EnsureSession(terminalType, checkOc, createOc, session)
          IN  /\ session' = r.present
              /\ last' = Call(last, "EnsureSession", checkOc, session, r.present, r.err, "", r.created, <<>>, <<>>)
    /\ UNCHANGED <<terminalType, windowID, pc, startErr, request, response, reqs, out, calls, backendErr, ensured, tmpFiles, ensuring>>

CallSessionExists ==
    /\ last.n < MaxCalls
    /\ \E oc \in CheckOutcomes(terminalType, session) :
          LET r == SessionExists(terminalType, oc, session)
          IN  last' = Call(last, "SessionExists", oc, session, session, r.err,
                           IF Failed(r) THEN "" ELSE r.val[1], FALSE, <<>>, <<>>)
    /\ UNCHANGED <<terminalType, windowID, session, pc, startErr, request, response, reqs, out, calls, backendErr, ensured, tmpFiles, ensuring>>

CallListWindows ==
    /\ last.n < MaxCalls
    /\ \E oc \in QueryOutcomes(session), fields \in WindowOutputs :
          LET output == IF oc = CmdOK THEN fields ELSE <<>>
              r == ListWindows(terminalType, oc, ParseWindows(output))
          IN  last' = Call(last, "ListWindows", oc, session, session, r.err, "", FALSE, output, r.val)
    /\ UNCHANGED <<terminalType, windowID, session, pc, startErr, request, response, reqs, out, calls, backendErr, ensured, tmpFiles, ensuring>>

ManagerNext ==
    \/ CallEnsureSession
    \/ CallSessionExists
    \/ CallListWindows
    \/ KillSession

ManagerSpec == Init /\ [][ManagerNext]_vars

\* The outcomes of the command that creates the session.  tmux new-session
\* refuses a name that is taken; screen -dmS starts a session whatever
\* sessions there are.
CreateOutcomes(tt, present) ==
    IF tt = "tmux" /\ present THEN {CmdExit1, CmdFailed} ELSE {CmdOK, CmdFailed}

\* EnsureSession up to the outcome of its check: it returns when the check
\* failed or found the session, and goes on to create it otherwise.
EnsureSessionCheck ==
    /\ ensuring = <<>>
    /\ last.n < MaxCalls
    /\ \E checkOc \in CheckOutcomes(terminalType, session) :
          LET exists == SessionExists(terminalType, checkOc, session)
          IN  IF Failed(exists)
              THEN /\ last' = Call(last, "EnsureSession", checkOc, session, session,
                                    <<"failed to check session: ">> \o exists.err, "", FALSE, <<>>, <<>>)
                   /\ ensuring' = <<>>
              ELSE IF exists.val = <<"false">>
              THEN /\ ensuring' = <<checkOc, session>>
                   /\ last' = last
              ELSE /\ last' = Call(last, "EnsureSession", checkOc, session, session, <<>>, "true", FALSE, <<>>, <<>>)
                   /\ ensuring' = <<>>
    /\ UNCHANGED <<terminalType, windowID, session, pc, startErr, request, response, reqs, out, calls, backendErr, ensured, tmpFiles>>

\* EnsureSession from its create command to its return.
EnsureSessionCreate ==
    /\ ensuring # <<>>
    /\ \E createOc \in CreateOutcomes(terminalType, session) :
          IF createOc # CmdOK
          THEN /\ last' = Call(last, "EnsureSession", ensuring[1], ensuring[2], session,
                                <<"failed to create ", terminalType, " session: ", createOc>>,
                                "false", TRUE, <<>>, <<>>)
               /\ session' = session
          ELSE /\ last' = Call(last, "EnsureSession", ensuring[1], ensuring[2], TRUE, <<>>, "false", TRUE, <<>>, <<>>)
               /\ session' = TRUE
    /\ ensuring' = <<>>
    /\ UNCHANGED <<terminalType, windowID, pc, startErr, request, response, reqs, out, calls, backendErr, ensured, tmpFiles>>

\* Another process creates the session (tmux new-session or screen -dmS
\* with the same name, run from a shell or by a second server).
ExternalCreate ==
    /\ ~session
    /\ session' = TRUE
    /\ UNCHANGED <<terminalType, windowID, pc, startErr, request, response, reqs, out, calls, backendErr, ensured, last, tmpFiles, ensuring>>

\* The manager's EnsureSession step by step, next to other processes that
\* create and end the session.
RaceNext ==
    \/ EnsureSessionCheck
    \/ EnsureSessionCreate
    \/ ExternalCreate
    \/ KillSession

RaceSpec == Init /\ [][RaceNext]_vars

\* ------------------------------------------------------------------ claims
\* Start has returned because writing a response failed.
EncodeFailed == pc = "done" /\ startErr # <<>> /\ Head(startErr) = "failed to encode response: "

\* Start has returned because EnsureSession failed.
StartupFailed == pc = "done" /\ startErr # <<>> /\ Head(startErr) = "failed to setup terminal session: "

\* The lines of the output that answer request k.
Answers(k) == { j \in 1..Len(out) : out[j].req = k }

\* Request k is behind the server: the loop went on to read again, or Start
\* returned.
Finished(k) == k < Len(reqs) \/ pc \in {"decode", "done"}

\* C1 (as stated): once a decoded request that carries an id is behind the
\* server, the output holds exactly one response for it, with the request's
\* id and jsonrpc "2.0".
C1_ExactlyOneResponse ==
    \A k \in 1..Len(reqs) :
        (reqs[k] # NilID /\ Finished(k)) =>
            /\ Cardinality(Answers(k)) = 1
            /\ \A j \in Answers(k) : out[j].id = reqs[k] /\ out[j].jsonrpc = "2.0"

\* C1 (amended): a decoded request that carries an id never gets more than
\* one response, every response to it carries its id and jsonrpc "2.0", and
\* once it is behind the server it has exactly one, unless Start returned
\* because writing that response failed.
C1_OneResponseUnlessWriteFails ==
    \A k \in 1..Len(reqs) :
        reqs[k] # NilID =>
            /\ Cardinality(Answers(k)) <= 1
            /\ \A j \in Answers(k) : out[j].id = reqs[k] /\ out[j].jsonrpc = "2.0"
            /\ (Finished(k) /\ ~(k = Len(reqs) /\ EncodeFailed)) => Cardinality(Answers(k)) = 1
            /\ (k = Len(reqs) /\ EncodeFailed) => Answers(k) = {}

C1_Witness ==
    /\ pc = "decode"
    /\ Len(reqs) = 2 /\ Len(out) = 2
    /\ reqs[1] = "str:a" /\ reqs[2] = "num:1"
    /\ out[1].hasError /\ out[2].hasResult

\* C2: the loop is strictly sequential.  A request is read only when every
\* earlier request has its response on the output; the output grows by one
\* response at a time, the one for the request read last, so responses are in
\* the order of their requests; and backend operations run for a request
\* only while all earlier responses are written and its own is not.
C2_Sequential ==
    [][ /\ (reqs' # reqs => (Len(out) = Len(reqs) /\ \A k \in 1..Len(reqs) : out[k].req = k))
        /\ (out' # out => (Len(out') = Len(out) + 1 /\ out'[Len(out')].req = Len(reqs)
                            /\ Len(out') = Len(reqs) /\ reqs' = reqs))
        /\ ((calls' # calls /\ calls' # <<>> /\ pc # "start") =>
                (Len(out) = Len(reqs) - 1 /\ out' = out /\ reqs' = reqs)) ]_vars

C2_Witness ==
    /\ pc = "encode"
    /\ Len(reqs) = 2 /\ Len(out) = 1
    /\ calls = <<"GetPaneInfo", "GetWindow">>

\* C3: every response handleRequest produces carries exactly one of result
\* and error, and so does every line of the output.
C3_ResultXorError ==
    /\ (pc = "encode" => (HasResult(response) # HasError(response)))
    /\ \A j \in 1..Len(out) : out[j].hasResult # out[j].hasError

C3_Witness ==
    /\ pc = "decode" /\ Len(out) = 2
    /\ out[1].hasError /\ ~out[1].hasResult
    /\ out[2].hasResult /\ ~out[2].hasError
    /\ request.method = "tools/call" /\ backendErr # <<>>

\* C4: the server is read-only.  The backend operations it invokes are
\* EnsureSession (only while starting, once), CapturePane, GetPaneInfo,
\* GetScrollbackHistory, ListWindows, SetWindow and GetWindow; KillSession is
\* invoked for no request, and no operation invoked runs a command that
\* types into the session or ends it.
RequestOps == {"CapturePane", "GetPaneInfo", "GetScrollbackHistory", "ListWindows", "SetWindow", "GetWindow"}

\* Commands that type into a session or end it.
IntrusiveCommands == {"tmux send-keys", "tmux kill-session", "screen -X stuff", "screen -X quit"}

C4_ReadOnly ==
    /\ \A i \in 1..Len(calls) : calls[i] \in RequestOps \cup {"EnsureSession"}
    /\ \A i \in 1..Len(calls) : calls[i] # "KillSession"
    /\ \A i \in 1..Len(calls) : Commands(terminalType, calls[i]) \cap IntrusiveCommands = {}
    /\ (\E i \in 1..Len(calls) : calls[i] = "EnsureSession") => (calls = <<"EnsureSession">> /\ reqs = <<>>)
    /\ ensured <= 1

C4_Witness ==
    /\ pc = "encode" /\ Len(reqs) = 2
    /\ request.params.name = "set_window" /\ calls = <<"SetWindow">>
    /\ windowID = "2"

\* C5: Start calls EnsureSession exactly once, before any request is read;
\* the server starts serving only when EnsureSession succeeded (the session
\* is then there), never goes back to the start, and when EnsureSession
\* fails Start returns an error with no request read and none answered.
C5_StartOnce ==
    /\ [](pc = "start" => (ensured = 0 /\ reqs = <<>> /\ out = <<>>))
    /\ [](pc # "start" => ensured = 1)
    /\ [](StartupFailed => (reqs = <<>> /\ request = NoRequest /\ \A j \in 1..Len(out) : out[j].req = 0))
    /\ [][pc # "start" => pc' # "start"]_vars
    /\ [][(pc = "start" /\ pc' # "start") =>
             (calls' = <<"EnsureSession">> /\ (pc' = "decode" => session') /\ (pc' # "decode" => StartupFailed'))]_vars

C5_Witness == StartupFailed /\ ~session /\ terminalType = "screen"

\* C6: when EnsureSession fails at startup, one RPC-level error response
\* (error set, no result, answering no request) is emitted on the output
\* before Start returns its error.
C6_StartupErrorEmitted ==
    StartupFailed =>
        /\ Len(out) = 1
        /\ out[1].req = 0 /\ out[1].hasError /\ ~out[1].hasResult

\* The text pieces of a tool result.
ToolText(r) == r.result.content[1].text

Contains(msg, piece) == \E i \in 1..Len(msg) : msg[i] = piece

\* C7: a backend failure during a tools/call handler gives an RPC success
\* (result set, no error) whose result has the error flag and one text item
\* that is "Error: " followed by the backend's error; never an RPC error.
C7_ToolFailureIsResult ==
    (pc = "encode" /\ request.method = "tools/call" /\ backendErr # <<>>) =>
        /\ HasResult(response) /\ ~HasError(response)
        /\ response.result.kind = "tool"
        /\ response.result.isError
        /\ Len(response.result.content) = 1
        /\ response.result.content[1].type = "text"
        /\ ToolText(response) = <<"Error: ">> \o backendErr

C7_Witness ==
    /\ pc = "encode" /\ request.method = "tools/call"
    /\ request.params.name = "read_scrollback"
    /\ backendErr # <<>> /\ terminalType = "screen"
    /\ response.result.isError

\* C8: a backend failure during resources/read gives an RPC-level error with
\* code -32603 and no result, its message being the backend's error, while
\* the same failure on the tools/call path gives a result.
C8_ResourceFailureIsRPCError ==
    (pc = "encode" /\ backendErr # <<>>) =>
        /\ (request.method = "resources/read" =>
               /\ ~HasResult(response) /\ HasError(response)
               /\ response.error.code = InternalError
               /\ response.error.message = backendErr)
        /\ (request.method = "tools/call" => (HasResult(response) /\ ~HasError(response)))

C8_Witness ==
    /\ pc = "encode" /\ request.method = "resources/read"
    /\ request.params.uri = "terminal://current"
    /\ backendErr # <<>> /\ response.error.code = InternalError

\* C9: a method that is not exactly one of the five of the method table
\* gives an error response with code -32601, no result, and a message that
\* contains the method as requested; no backend operation runs for it.
C9_MethodNotFound ==
    (pc = "encode" /\ request.method \notin MethodTable) =>
        /\ ~HasResult(response) /\ HasError(response)
        /\ response.error.code = MethodNotFound
        /\ Contains(response.error.message, request.method)
        /\ calls = <<>>

C9_Witness ==
    /\ pc = "encode" /\ request.method = "Initialize"
    /\ response.error.code = MethodNotFound

\* C10: a tools/call naming no tool of the tool set, and a resources/read
\* naming no resource of the resource set, give an RPC-level error with code
\* -32603 and no result, whose message is "unknown tool: " resp. "unknown
\* resource: " with the offending name, and no backend operation is invoked.
C10_UnknownToolOrResource ==
    /\ (pc = "encode" /\ request.method = "tools/call" /\ request.params.shape # "string"
          /\ request.params.name \notin ToolNames) =>
            /\ ~HasResult(response) /\ HasError(response)
            /\ response.error.code = InternalError
            /\ response.error.message = <<"unknown tool: ", request.params.name>>
            /\ calls = <<>> /\ backendErr = <<>>
    /\ (pc = "encode" /\ request.method = "resources/read" /\ request.params.shape # "string"
          /\ request.params.uri \notin ResourceURIs) =>
            /\ ~HasResult(response) /\ HasError(response)
            /\ response.error.code = InternalError
            /\ response.error.message = <<"unknown resource: ", request.params.uri>>
            /\ calls = <<>> /\ backendErr = <<>>

C10_Witness ==
    /\ pc = "encode" /\ request.method = "tools/call"
    /\ request.params.name = "unknown_tool"
    /\ Len(out) = 1 /\ out[1].hasError
    /\ request.id = "str:a" /\ response.id = "str:a"

\* C11: a tools/call or resources/read whose params do not decode into the
\* request object (a JSON string) is answered, for that request, by an
\* RPC-level error with code -32603 and no result, whose message tells that
\* the params could not be unmarshalled; the loop goes on to write it, and
\* no backend operation is invoked.
C11_MalformedParams ==
    (pc = "encode" /\ request.method \in {"tools/call", "resources/read"} /\ request.params.shape = "string") =>
        /\ ~HasResult(response) /\ HasError(response)
        /\ response.id = request.id
        /\ response.error.code = InternalError
        /\ Head(response.error.message) =
              (IF request.method = "tools/call" THEN "failed to unmarshal tool request: "
               ELSE "failed to unmarshal resource request: ")
        /\ calls = <<>> /\ backendErr = <<>>

C11_Witness ==
    /\ pc = "encode" /\ Len(reqs) = 2 /\ Len(out) = 1
    /\ request.method = "resources/read" /\ request.params = StringParams
    /\ response.error.code = InternalError
    /\ out[1].hasError

\* Start has returned because decoding the input failed for another reason
\* than its clean end.
DecodeFailed ==
    /\ pc = "done" /\ startErr # <<>>
    /\ Head(startErr) = "failed to decode request: " /\ startErr[2] # "EOF"

\* Every request read has its one response on the output, in order.
AllAnsweredOnce == Len(out) = Len(reqs) /\ \A k \in 1..Len(reqs) : out[k].req = k

\* C12 (as stated): when no decoding of the input fails (the input is a
\* finite sequence of well-formed requests, then its end), a server that
\* got to serve eventually returns nil from Start with exactly one response
\* written per request.
C12_TerminatesWithSuccess ==
    [](~DecodeFailed /\ ~StartupFailed) => <>(pc = "done" /\ startErr = <<>> /\ AllAnsweredOnce)

\* C12 (amended): Start always returns once the input ends; when session
\* setup succeeded, no decoding failed and no write of a response failed, it
\* returns nil with exactly one response written per request, in order; and
\* the step that meets the end of the input writes no response, reads no
\* request and sets no error.
C12_TerminatesCleanly ==
    /\ <>(pc = "done")
    /\ [](~StartupFailed /\ ~DecodeFailed /\ ~EncodeFailed) =>
           <>(pc = "done" /\ startErr = <<>> /\ AllAnsweredOnce)
    /\ []((pc = "done" /\ ~StartupFailed /\ ~DecodeFailed /\ ~EncodeFailed) =>
             (startErr = <<>> /\ AllAnsweredOnce))
    /\ [][(pc = "decode" /\ pc' = "done" /\ ~DecodeFailed') =>
             (startErr' = <<>> /\ out' = out /\ reqs' = reqs)]_vars

C12_Witness ==
    /\ pc = "done" /\ startErr = <<>>
    /\ Len(reqs) = 2 /\ AllAnsweredOnce
    /\ reqs[2] = NilID /\ out[2].hasResult

\* C13: a failure to decode the input (malformed JSON, a read error other
\* than the clean end) is fatal.  The step that meets it makes Start return
\* an error and writes nothing, reads no request and runs no backend
\* operation; the output then holds the responses of the requests read
\* before, one each and nothing else; and once Start has returned, no
\* request is read, handled or answered any more.
C13_DecodeFailureIsFatal ==
    /\ [](DecodeFailed => (startErr # <<>> /\ AllAnsweredOnce))
    /\ [][(pc = "decode" /\ DecodeFailed') =>
             (out' = out /\ reqs' = reqs /\ calls' = calls /\ response' = response)]_vars
    /\ [][pc = "done" =>
             (pc' = "done" /\ startErr' = startErr /\ reqs' = reqs /\ out' = out
              /\ calls' = calls /\ response' = response /\ request' = request)]_vars

C13_Witness ==
    /\ DecodeFailed /\ startErr[2] = "invalid character"
    /\ Len(reqs) = 1 /\ Len(out) = 1
    /\ out[1].req = 1 /\ out[1].hasResult

\* The text of a resource result.
ResourceText(r) == r.result.contents[1].text

\* The operations whose commands read one window of the session.
WindowReads == {"CapturePane", "GetPaneInfo", "GetScrollbackHistory"}

\* C14: once set_window has confirmed window w, that window is in force
\* until the next successful set_window: get_terminal_info and the
\* terminal://info resource report it, and the commands that CapturePane,
\* GetPaneInfo and GetScrollbackHistory run are targeted at it, in the tmux
\* backend as in the screen backend.
C14_WindowInForce ==
    pc = "encode" =>
        /\ (request.method = "tools/call" /\ calls = <<"SetWindow">>) =>
               (windowID = request.params.window_id.s /\ ~response.result.isError)
        /\ (request.method = "tools/call" /\ calls = <<"GetPaneInfo", "GetWindow">>) =>
               ToolText(response)[Len(ToolText(response))] = windowID
        /\ (request.method = "resources/read" /\ calls = <<"GetPaneInfo", "GetWindow">>) =>
               ResourceText(response)[Len(ResourceText(response))] = windowID
        /\ windowID # "" =>
               \A i \in 1..Len(calls) :
                   calls[i] \in WindowReads =>
                       Contains(CommandTarget(terminalType, calls[i], windowID), windowID)

\* The current request is a set_window call whose window_id is absent or
\* not a string.
BadSetWindow ==
    /\ request.method = "tools/call" /\ request.params.shape # "string"
    /\ request.params.name = "set_window" /\ request.params.window_id.k # "str"

\* C15: a set_window call whose window_id is absent or not a string gets an
\* RPC success whose tool result has the error flag and the text "Error:
\* window_id must be a string"; SetWindow is not called and handling the
\* request leaves the backend's window as it was.
C15_BadWindowID ==
    /\ []((pc = "encode" /\ BadSetWindow) =>
             /\ HasResult(response) /\ ~HasError(response)
             /\ response.result.kind = "tool" /\ response.result.isError
             /\ ToolText(response) = <<"Error: window_id must be a string">>
             /\ calls = <<>>)
    /\ [][(pc = "handle" /\ BadSetWindow) => windowID' = windowID]_vars

C15_Witness ==
    /\ pc = "encode" /\ BadSetWindow
    /\ request.params.window_id = JNum(20)
    /\ windowID = "2" /\ response.result.isError

\* The current request is a read_scrollback call that reached the backend.
ScrollbackCalled ==
    /\ pc = "encode" /\ request.method = "tools/call"
    /\ request.params.name = "read_scrollback" /\ calls = <<"GetScrollbackHistory">>

\* The line count read_scrollback hands to GetScrollbackHistory.
RequestedLines == ScrollbackLines(request.params.lines)

\* n is the number given in tenths with its fraction cut off toward zero.
Truncated(tenths, n) ==
    /\ tenths >= 0 => (n >= 0 /\ 10 * n <= tenths /\ tenths < 10 * n + 10)
    /\ tenths <= 0 => (n <= 0 /\ 10 * n >= tenths /\ tenths > 10 * n - 10)

\* C16: read_scrollback asks the backend for the number given as lines with
\* its fraction cut off toward zero, the same count however the number is
\* written (100 and 100.0) and whether it arrives as a float or as an int,
\* and for 100 lines when lines is absent; the count is the one the
\* backend's command is given.
C16_ScrollbackLineCount ==
    ScrollbackCalled =>
        LET arg == request.params.lines
        IN  /\ arg.k = "absent" => RequestedLines = 100
            /\ arg.k = "num" =>
                   /\ Truncated(ParseNumber(arg.s), RequestedLines)
                   /\ \A t \in NumberTexts :
                          ParseNumber(t) = ParseNumber(arg.s) =>
                              ScrollbackLines(JNumText(t)) = RequestedLines
            /\ arg.k = "int" =>
                   /\ RequestedLines = arg.n
                   /\ \A t \in NumberTexts :
                          ParseNumber(t) = 10 * arg.n =>
                              ScrollbackLines(JNumText(t)) = RequestedLines
            /\ backendErr = <<>> =>
                   ToolText(response)[Len(ToolText(response)) - 1] = ToString(RequestedLines)

C16_Witness ==
    /\ ScrollbackCalled /\ backendErr = <<>>
    /\ request.params.lines.s = "50.00"
    /\ RequestedLines = 50
    /\ terminalType = "screen"

\* C17: whatever the lines argument of a read_scrollback call is, the line
\* count handed to GetScrollbackHistory is a positive integer.
C17_PositiveLineCount == ScrollbackCalled => RequestedLines > 0

\* The call made last was an EnsureSession that came right after a
\* successful EnsureSession, the session being still there.
EnsuredTwice ==
    /\ last.op = "EnsureSession" /\ last.priorOp = "EnsureSession" /\ last.priorErr = <<>>
    /\ last.before

C19_SessionExistsVerdicts ==
    last.op = "SessionExists" =>
        /\ (last.err = <<>> /\ last.exists = "false") => (last.oc = CmdExit1 /\ ~last.before)
        /\ (last.before /\ last.oc = CmdOK) => (last.err = <<>> /\ last.exists = "true")
        /\ last.oc \in {CmdFailed, CmdOddOutput} => last.err # <<>>

\* The enumeration command of the call made last printed no word that is a
\* window number.
NoWindowParsed == \A i \in 1..Len(last.output) : ~IsInt(last.output[i])

\* C20: ListWindows never returns an error and never an empty list.  When
\* the enumeration command fails, prints nothing or prints no window
\* number, the result is the one entry {id "0", name "default"}; otherwise
\* it is one entry per window number printed, in ascending order.
C20_ListWindowsNeverEmpty ==
    last.op = "ListWindows" =>
        /\ last.err = <<>>
        /\ Len(last.windows) >= 1
        /\ (last.oc # CmdOK \/ last.output = <<>> \/ NoWindowParsed) =>
               last.windows = << [id |-> "0", name |-> "default"] >>
        /\ (last.oc = CmdOK /\ ~NoWindowParsed) =>
               /\ { last.windows[i].id : i \in 1..Len(last.windows) } =
                      { ToString(Atoi(last.output[i])) : i \in { j \in 1..Len(last.output) : IsInt(last.output[j]) } }
               /\ \A i \in 1..Len(last.windows) - 1 :
                      Atoi(last.windows[i].id) < Atoi(last.windows[i + 1].id)

C20_Witness ==
    /\ last.op = "ListWindows" /\ last.oc = CmdOK
    /\ last.output = <<"No", "screen", "session", "found.">>
    /\ last.windows = << [id |-> "0", name |-> "default"] >>
    /\ terminalType = "screen"

\* C21: tools/list always answers with the same tool set, whatever was
\* requested before and whatever the state of the session, the window and
\* the multiplexer: read_terminal, read_scrollback, get_terminal_info,
\* list_windows and set_window, in this order, every descriptor with a
\* non-empty name, a non-empty description and an input schema of type
\* "object"; no backend operation is invoked for it.
C21_StaticToolSet ==
    (pc = "encode" /\ request.method = "tools/list") =>
        /\ HasResult(response) /\ ~HasError(response)
        /\ response.result.kind = "tools"
        /\ [i \in 1..Len(response.result.tools) |-> response.result.tools[i].name] =
              <<"read_terminal", "read_scrollback", "get_terminal_info", "list_windows", "set_window">>
        /\ \A i \in 1..Len(response.result.tools) :
              /\ response.result.tools[i].name # ""
              /\ response.result.tools[i].description # <<>>
              /\ \A j \in 1..Len(response.result.tools[i].description) :
                     response.result.tools[i].description[j] # ""
              /\ response.result.tools[i].inputSchema.type = "object"
              /\ response.result.tools[i].inputSchema.required \subseteq
                     response.result.tools[i].inputSchema.properties
        /\ calls = <<>> /\ backendErr = <<>>

C21_Witness ==
    /\ pc = "encode" /\ request.method = "tools/list"
    /\ Len(reqs) = 2 /\ out[1].hasError
    /\ ~session /\ windowID = "1"
    /\ Len(response.result.tools) = 5

\* C22: an initialize request always succeeds: the response has a result
\* and no error, echoes the request id, and carries protocol version
\* "2024-11-05" and server name "mcp-ssh-wingman", whatever the params of
\* the request, the requests before it and the state of the backend; no
\* backend operation is invoked for it.
C22_InitializeSucceeds ==
    (pc = "encode" /\ request.method = "initialize") =>
        /\ HasResult(response) /\ ~HasError(response)
        /\ response.id = request.id /\ response.jsonrpc = "2.0"
        /\ response.result.kind = "initialize"
        /\ response.result.protocolVersion = "2024-11-05"
        /\ response.result.serverInfo.name = "mcp-ssh-wingman"
        /\ calls = <<>> /\ backendErr = <<>>

C22_Witness ==
    /\ pc = "encode" /\ request.method = "initialize"
    /\ request.params = StringParams /\ request.id = "str:a"
    /\ Len(reqs) = 2 /\ out[1].hasError
    /\ ~session
    /\ response.result.protocolVersion = "2024-11-05"

\* A response that reports a failure: an RPC-level error, or a tool result
\* flagged isError.
Failing(r) == HasError(r) \/ (r.result.kind = "tool" /\ r.result.isError)

\* C23: a request that fails, at the RPC level (unknown method, unknown
\* tool or resource, malformed params, backend failure of a resource read)
\* or at the tool level, does not end the loop and does not change the
\* server: handling it leads to the writing of its response and leaves the
\* window, the backend and the session as they were; after its response is
\* written the loop reads again (Start returns at that point only when the
\* write itself fails); and the response to any request is determined by
\* the backend type, the window in force, the request and what the backend
\* commands return, not by the requests handled before it.
C23_FailureDoesNotDisturb ==
    [][ /\ (pc = "handle" /\ pc' # "handle") =>
              /\ pc' = "encode" /\ startErr' = <<>>
              /\ \E env \in Envs :
                    /\ env.oc \in QueryOutcomes(session)
                    /\ response' = handleRequest(terminalType, windowID, request, env).response
        /\ (pc = "handle" /\ pc' = "encode" /\ Failing(response')) =>
              /\ windowID' = windowID /\ terminalType' = terminalType
              /\ session' = session /\ reqs' = reqs /\ out' = out
        /\ (pc = "encode" /\ Failing(response) /\ pc' # "encode") =>
              /\ windowID' = windowID /\ terminalType' = terminalType /\ session' = session
              /\ \/ pc' = "decode" /\ startErr' = <<>>
                    /\ out' = Append(out, Envelope(Len(reqs), response))
                 \/ pc' = "done" /\ out' = out
                    /\ Head(startErr') = "failed to encode response: "
      ]_vars

C23_Witness ==
    /\ pc = "encode" /\ Len(reqs) = 2 /\ Len(out) = 1
    /\ out[1].hasError /\ windowID = "1"
    /\ request.method = "tools/call" /\ request.params.name = "get_terminal_info"
    /\ HasResult(response) /\ ~Failing(response)

\* The methods whose handlers go to the backend.
BackendMethods == {"tools/call", "resources/read"}

\* C24: while requests are served, backend operations are invoked only for
\* tools/call and resources/read.  For initialize, tools/list,
\* resources/list and any unknown method no operation is invoked and no
\* backend error arises, so the response is the same whatever the backend
\* commands would have returned, whether or not the session is there.
C24_BackendOnlyForCallAndRead ==
    /\ (pc \in {"handle", "encode"} /\ calls # <<>>) => request.method \in BackendMethods
    /\ (pc = "encode" /\ request.method \notin BackendMethods) =>
          /\ calls = <<>> /\ backendErr = <<>>
          /\ \A env \in Envs :
                response = handleRequest(terminalType, windowID, request, env).response

C24_Witness ==
    /\ pc = "encode" /\ request.method = "resources/list"
    /\ ~session /\ terminalType = "screen"
    /\ Len(reqs) = 2 /\ calls = <<>>
    /\ HasResult(response)

\* The current request is a well-formed set_window call whose window_id is
\* a string.
StringSetWindow ==
    /\ request.method = "tools/call" /\ ~UnmarshalFails(request.params)
    /\ request.params.name = "set_window" /\ request.params.window_id.k = "str"

\* C25: the backend's window changes only when a set_window call with a
\* string window_id is handled (before the first request it is the window
\* given at construction, which is applied only when not empty); every
\* other step, the handling of any other request included, leaves it as it
\* was.  Such a set_window call stores its string as it is, the empty
\* string included, calls nothing but SetWindow and succeeds, whether or
\* not the session or the window exists.
C25_WindowChangesOnlyBySetWindow ==
    /\ [](pc = "start" => windowID \in InitialWindows)
    /\ [][windowID' # windowID => (pc = "handle" /\ StringSetWindow)]_vars
    /\ [][(pc = "handle" /\ pc' = "encode" /\ StringSetWindow) =>
             /\ windowID' = request.params.window_id.s
             /\ calls' = <<"SetWindow">>
             /\ HasResult(response') /\ ~Failing(response')]_vars

C25_Witness ==
    /\ pc = "encode" /\ StringSetWindow /\ Len(reqs) = 2
    /\ request.params.window_id = JStr("") /\ windowID = ""
    /\ ~session /\ calls = <<"SetWindow">>
    /\ out[1].hasResult

\* The descriptions the managers put in front of an error: which operation
\* (which step of it) failed.
OperationContexts ==
    { "failed to capture pane: ", "failed to get pane info: ", "unexpected pane info format: ",
      "failed to capture scrollback: ", "failed to capture screen content: ",
      "failed to read captured content: ", "failed to read scrollback content: " }

\* The text of the error a client sees: the RPC error's message, or the
\* text of a tool result flagged isError.
ClientErrorText == IF HasError(response) THEN response.error.message ELSE ToolText(response)

\* C26: a backend error that reaches a client, in a tool result or in an
\* RPC error, begins with the description of the operation that failed and
\* only then carries the error of the external command; the error of the
\* command never reaches a client on its own.
C26_BackendErrorsHaveContext ==
    (pc = "encode" /\ backendErr # <<>>) =>
        /\ Failing(response)
        /\ Head(backendErr) \in OperationContexts
        /\ Head(backendErr) \notin CmdOutcomes
        /\ Len(backendErr) >= 2
        /\ ClientErrorText \in {backendErr, <<"Error: ">> \o backendErr}
        /\ ClientErrorText # <<>> /\ Head(ClientErrorText) \notin CmdOutcomes
        /\ ~(Head(ClientErrorText) = "Error: " /\ ClientErrorText[2] \in CmdOutcomes)

C26_Witness ==
    /\ pc = "encode" /\ request.method = "resources/read"
    /\ terminalType = "tmux" /\ backendErr = <<"failed to capture pane: ", CmdFailed, " (stderr: ", "<stderr>", ")">>
    /\ response.error.message = backendErr

\* The current request asks for the terminal information, as a tool call
\* or as a resource read.
InfoRequested ==
    /\ request.method \in BackendMethods /\ ~UnmarshalFails(request.params)
    /\ \/ request.method = "tools/call" /\ request.params.name = "get_terminal_info"
       \/ request.method = "resources/read" /\ request.params.uri = "terminal://info"

\* The text a client gets for the terminal information.
InfoText == IF request.method = "tools/call" THEN ToolText(response) ELSE ResourceText(response)

\* C27: GetPaneInfo of the screen backend never returns an error: whether
\* or not the info query succeeds, and whatever it prints, it returns
\* width "80", height "24", current_path "unknown" and the manager's
\* window as window_id.  So get_terminal_info and terminal://info never
\* fail on screen, whether or not the session is there.
C27_ScreenInfoNeverFails ==
    /\ \A oc \in CmdOutcomes, wellFormed \in BOOLEAN :
          LET info == GetPaneInfo("screen", oc, wellFormed, windowID)
          IN  /\ ~Failed(info)
              /\ info.val.width = "80" /\ info.val.height = "24"
              /\ info.val.current_path = "unknown"
              /\ info.val.window_id = windowID
    /\ (pc = "encode" /\ terminalType = "screen" /\ InfoRequested) =>
          /\ HasResult(response) /\ ~Failing(response)
          /\ backendErr = <<>>
          /\ calls = <<"GetPaneInfo", "GetWindow">>
          /\ Contains(InfoText, "80") /\ Contains(InfoText, "24")
          /\ Contains(InfoText, "unknown")

C27_Witness ==
    /\ pc = "encode" /\ terminalType = "screen" /\ InfoRequested
    /\ request.method = "resources/read"
    /\ ~session /\ windowID = "1"
    /\ calls = <<"GetPaneInfo", "GetWindow">>
    /\ HasResult(response)

\* C28: the temporary capture files of the screen backend are written and
\* removed within one call: whenever CapturePane or GetScrollbackHistory
\* has returned, with success or on any failure path, its temporary file
\* does not exist.
C28_TempFilesRemoved == tmpFiles = {}

\* C29 (as stated): one response is written for every decoded request, a
\* request without id included, whose response carries the null id: once
\* a request is behind the server the output holds exactly one response
\* for it, with its id, and whenever the loop is between two requests or
\* Start has returned, as many responses are written as requests were
\* decoded.
C29_ResponsePerRequest ==
    /\ \A k \in 1..Len(reqs) :
          Finished(k) => (Cardinality(Answers(k)) = 1 /\ \A j \in Answers(k) : out[j].id = reqs[k])
    /\ (pc \in {"decode", "done"}) => Len(out) = Len(reqs)

\* C29 (amended): whenever the loop is about to read, as many responses
\* are written as requests were decoded, the k-th response answering the
\* k-th request with its id (the null id for a request without id); while
\* a request is handled the output is one response short; and when Start
\* has returned the counts are equal unless the write of the last response
\* failed, which leaves the last request, and only it, without response.
C29_ResponsePerRequestUnlessWriteFails ==
    /\ \A j \in 1..Len(out) : out[j].req = j /\ out[j].id = reqs[j] /\ out[j].jsonrpc = "2.0"
    /\ (pc \in {"start", "decode"}) => Len(out) = Len(reqs)
    /\ (pc \in {"handle", "encode"}) => Len(out) + 1 = Len(reqs)
    /\ (pc = "done" /\ ~EncodeFailed) => Len(out) = Len(reqs)
    /\ (pc = "done" /\ EncodeFailed) => Len(out) + 1 = Len(reqs)

C29_Witness ==
    /\ pc = "decode" /\ Len(reqs) = 2 /\ Len(out) = 2
    /\ reqs[1] = NilID /\ out[1].id = NilID /\ out[1].hasResult
    /\ reqs[2] = NilID /\ out[2].id = NilID /\ out[2].hasError

\* C30: a call of EnsureSession whose check worked returns nil whenever
\* the session exists at its return, also when another process created
\* the session between the check and the create command.
C30_SuccessWhenSessionExists ==
    (last.op = "EnsureSession" /\ last.oc \in {CmdOK, CmdExit1} /\ last.after) => last.err = <<>>
====
